---- MODULE Spec2Model ----
(***************************************************************************)
(* The AP2 mandate authorization protocol of the repository.               *)
(*                                                                         *)
(* The repository holds two implementations of the protocol, each a        *)
(* process-wide registry reached through its own web application:          *)
(*   "basic"    utils/ap2_protocol.py (AP2Mandate, AP2Protocol) behind the  *)
(*              Flask blueprint routes/ap2.py;                              *)
(*   "enhanced" src/ap2_protocol.py (EnhancedAP2Mandate,                    *)
(*              EnhancedAP2Protocol) behind the FastAPI application         *)
(*              src/ap2_agent.py.                                           *)
(* A behaviour is a run of one of the two; impl says which.                *)
(*                                                                         *)
(* Both applications write mandates through to the Firestore collection   *)
(* ap2_transactions when a Firestore client is available (db).  Spec is    *)
(* the deployment without one, in which the collection stays empty;        *)
(* SpecStore adds the client and its outages.  The Flask application       *)
(* serves requests on threads: SpecConc runs its execute requests step by  *)
(* step (requests), where Spec runs every request in one step.             *)
(*                                                                         *)
(* Time (datetime.now()) is counted in hours.  Scores are floats in the    *)
(* source; they are kept here multiplied by Scale, which makes every       *)
(* division of the scorer exact for integer amounts.                       *)
(***************************************************************************)
EXTENDS Integers, Sequences, FiniteSets, TLC

VARIABLES impl, now, mandates, db, ap2_transactions, requests

vars == <<impl, now, mandates, db, ap2_transactions, requests>>

(***************************************************************************)
(* Bounds of the model.                                                    *)
(***************************************************************************)
MaxListed == 3
MaxMandates == 1
MaxNow == 48
TickHours == 24

(***************************************************************************)
(* Program constants.                                                      *)
(***************************************************************************)
ExpiryHours == 24
None == -1
base_trust == 85
IntentRisk == 10
CartRiskCap == 50
CartRiskDivisor == 20
PaymentRiskCap == 80
PaymentRiskDivisor == 10
EmergencyFactorNum == 7
EmergencyFactorDen == 10
auto_approval_threshold == 80
CartCeiling == 50
PaymentCeiling == 100
RouteCartLimit == 50
RoutePaymentLimit == 100

\* Scores are kept multiplied by Scale, the common denominator of the
\* divisions of the scorer (amount / 20, amount / 10, * 0.7).
Scale == CartRiskDivisor * PaymentRiskDivisor * EmergencyFactorDen

PENDING == "pending"
APPROVED == "approved"
EXECUTED == "executed"
CANCELLED == "cancelled"
EXPIRED == "expired"
MandateStatus == {PENDING, APPROVED, EXECUTED, CANCELLED, EXPIRED}

INTENT == "intent"
CART == "cart"
PAYMENT == "payment"
MandateType == {INTENT, CART, PAYMENT}

safe_intents == {"savings_goal", "budget_alert", "spending_analysis"}

(***************************************************************************)
(* Inputs of the requests.                                                 *)
(***************************************************************************)
Users == {"u1", "u2"}
Threads == {"t1", "t2"}
IntentTypes == {"savings_goal", "custom"}
CartAmounts == {50, 75, 101}
PaymentAmounts == {50, 90, 101}
Purposes == {"emergency", "shopping"}
Urgencies == {"normal", "emergency"}

IntentData == [intent_type : IntentTypes]
CartData == [total_amount : CartAmounts]
PaymentData == [amount : PaymentAmounts, purpose : Purposes, urgency : Urgencies]

\* The payloads a holder of the data dictionary rewrites it to.
TamperData(type) ==
    CASE type = INTENT -> {[intent_type |-> "savings_goal"]}
      [] type = CART -> {[total_amount |-> 50]}
      [] type = PAYMENT ->
           {[amount |-> 50, purpose |-> "emergency", urgency |-> "emergency"]}

Min(a, b) == IF a <= b THEN a ELSE b

(***************************************************************************)
(* Signature service.  A digest is modelled symbolically: it is determined *)
(* by the key and the message and differs when either differs.             *)
(***************************************************************************)
hmac_sha256(key, message) == <<"hmac_sha256", key, message>>

sha256(text) == <<"sha256", text>>

\* Mutant of generate_signature: expires_at is signed with the other fields.
generate_signature_with_expiry(m) ==
    hmac_sha256("ap2_secret_key_mock",
                [id |-> m.id, type |-> m.type, user_id |-> m.user_id,
                 data |-> m.data, created_at |-> m.created_at,
                 expires_at |-> m.expires_at])

\* Mutant of generate_signature: the status is signed with the other fields.
generate_signature_with_status(m) ==
    hmac_sha256("ap2_secret_key_mock",
                [id |-> m.id, type |-> m.type, user_id |-> m.user_id,
                 data |-> m.data, created_at |-> m.created_at,
                 status |-> m.status])

\* AP2Mandate._generate_signature
generate_signature(m) ==
    hmac_sha256("ap2_secret_key_mock",
                [id |-> m.id, type |-> m.type, user_id |-> m.user_id,
                 data |-> m.data, created_at |-> m.created_at])

\* AP2Mandate.verify_signature
verify_signature(m) == m.signature = generate_signature(m)

\* Mutant of proof_signature: the nonce is left out of the signed payload.
proof_signature_without_nonce(m) ==
    sha256(<<"ap2_secret_", m.user_id,
             [id |-> m.id, type |-> m.type, user_id |-> m.user_id,
              data |-> m.data, created_at |-> m.created_at]>>)

\* The signature EnhancedAP2Mandate computes over its fields.
proof_signature(m) ==
    sha256(<<"ap2_secret_", m.user_id,
             [id |-> m.id, type |-> m.type, user_id |-> m.user_id,
              data |-> m.data, created_at |-> m.created_at,
              nonce |-> m.nonce]>>)

\* EnhancedAP2Mandate._generate_cryptographic_proof
generate_cryptographic_proof(m) ==
    [signature |-> proof_signature(m),
     public_key_hash |-> sha256(<<"pubkey_", m.user_id>>),
     timestamp |-> m.created_at,
     nonce |-> m.nonce,
     algorithm |-> "RSA-OAEP-SHA256"]

\* EnhancedAP2Mandate.verify_cryptographic_proof
verify_cryptographic_proof(m) ==
    proof_signature(m) = m.cryptographic_proof.signature

(***************************************************************************)
(* Trust scorer (enhanced implementation only).                            *)
(***************************************************************************)
\* Mutant of risk_score: the risk falls as the amount rises.
risk_score_falling(type, data) ==
    CASE type = INTENT -> IntentRisk * Scale
      [] type = CART ->
           CartRiskCap * Scale
               - Min(CartRiskCap * Scale,
                     (data.total_amount * Scale) \div CartRiskDivisor)
      [] type = PAYMENT ->
           PaymentRiskCap * Scale
               - Min(PaymentRiskCap * Scale,
                     (data.amount * Scale) \div PaymentRiskDivisor)

\* The risk assessment of EnhancedAP2Mandate._calculate_trust_metrics
risk_score(type, data) ==
    CASE type = INTENT -> IntentRisk * Scale
      [] type = CART ->
           Min(CartRiskCap * Scale,
               (data.total_amount * Scale) \div CartRiskDivisor)
      [] type = PAYMENT ->
           LET r == Min(PaymentRiskCap * Scale,
                        (data.amount * Scale) \div PaymentRiskDivisor)
           IN  IF data.urgency = "emergency"
               THEN (r * EmergencyFactorNum) \div EmergencyFactorDen
               ELSE r

\* EnhancedAP2Mandate._calculate_trust_metrics
calculate_trust_metrics(type, data) ==
    LET risk == risk_score(type, data)
        final_score == base_trust * Scale - risk
    IN  [user_trust_score |-> base_trust * Scale,
         transaction_risk_score |-> risk,
         auto_approval_threshold |-> auto_approval_threshold * Scale,
         requires_manual_review |->
             final_score < auto_approval_threshold * Scale]

\* Mutant of type_rule: the cart ceiling is not applied.
type_rule_cart_uncapped(m) ==
    CASE m.type = INTENT -> m.data.intent_type \in safe_intents
      [] m.type = CART -> TRUE
      [] m.type = PAYMENT ->
           m.data.amount <= PaymentCeiling /\ m.data.urgency = "emergency"

\* The kind-specific rule of EnhancedAP2Mandate.can_auto_approve
type_rule(m) ==
    CASE m.type = INTENT -> m.data.intent_type \in safe_intents
      [] m.type = CART -> m.data.total_amount <= CartCeiling
      [] m.type = PAYMENT ->
           m.data.amount <= PaymentCeiling /\ m.data.urgency = "emergency"

\* EnhancedAP2Mandate.can_auto_approve
can_auto_approve(m) ==
    IF ~verify_cryptographic_proof(m) THEN FALSE
    ELSE IF m.trust_metrics.requires_manual_review THEN FALSE
    ELSE type_rule(m)

(***************************************************************************)
(* Mandate entity, basic implementation (AP2Mandate).  Each method is an   *)
(* operator from the mandate and the clock to the value returned (ok) and  *)
(* the mandate the call leaves behind (m).                                 *)
(***************************************************************************)
\* AP2Mandate.__init__
AP2Mandate(id, type, user_id, data, t) ==
    LET m0 == [id |-> id, type |-> type, user_id |-> user_id, data |-> data,
               status |-> PENDING, created_at |-> t,
               expires_at |-> t + ExpiryHours, executed_at |-> None]
    IN  [id |-> m0.id, type |-> m0.type, user_id |-> m0.user_id,
         data |-> m0.data, status |-> m0.status, created_at |-> m0.created_at,
         expires_at |-> m0.expires_at, executed_at |-> m0.executed_at,
         signature |-> generate_signature(m0)]

\* AP2Mandate.is_valid
is_valid(m, t) ==
    /\ m.status \in {PENDING, APPROVED}
    /\ t < m.expires_at
    /\ verify_signature(m)

\* Mutant of execute: the status test after is_valid is dropped, so a valid
\* Pending mandate executes.
execute_any_valid(m, t) ==
    IF is_valid(m, t)
    THEN [ok |-> TRUE,
          m |-> [m EXCEPT !.status = EXECUTED, !.executed_at = t]]
    ELSE [ok |-> FALSE, m |-> m]

\* Mutant of cancel: the status test is dropped.
cancel_unguarded(m) ==
    [ok |-> TRUE, m |-> [m EXCEPT !.status = CANCELLED]]

\* AP2Mandate.approve
approve(m, t) ==
    IF is_valid(m, t) /\ m.status = PENDING
    THEN [ok |-> TRUE, m |-> [m EXCEPT !.status = APPROVED]]
    ELSE [ok |-> FALSE, m |-> m]

\* AP2Mandate.execute
execute(m, t) ==
    IF is_valid(m, t) /\ m.status = APPROVED
    THEN [ok |-> TRUE,
          m |-> [m EXCEPT !.status = EXECUTED, !.executed_at = t]]
    ELSE [ok |-> FALSE, m |-> m]

\* AP2Mandate.cancel
cancel(m) ==
    IF m.status = PENDING
    THEN [ok |-> TRUE, m |-> [m EXCEPT !.status = CANCELLED]]
    ELSE [ok |-> FALSE, m |-> m]

(***************************************************************************)
(* Mandate entity, enhanced implementation (EnhancedAP2Mandate).           *)
(***************************************************************************)
\* EnhancedAP2Mandate.__init__; the nonce is a fresh value per mandate
EnhancedAP2Mandate(id, type, user_id, data, t, nonce) ==
    LET m0 == [id |-> id, type |-> type, user_id |-> user_id, data |-> data,
               status |-> PENDING, created_at |-> t,
               expires_at |-> t + ExpiryHours, executed_at |-> None,
               nonce |-> nonce]
    IN  [id |-> m0.id, type |-> m0.type, user_id |-> m0.user_id,
         data |-> m0.data, status |-> m0.status, created_at |-> m0.created_at,
         expires_at |-> m0.expires_at, executed_at |-> m0.executed_at,
         nonce |-> m0.nonce,
         cryptographic_proof |-> generate_cryptographic_proof(m0),
         trust_metrics |-> calculate_trust_metrics(type, data)]

\* Mutant of enhanced_approve: the proof is not verified.
enhanced_approve_unverified(m) ==
    IF m.status # PENDING THEN [ok |-> FALSE, m |-> m]
    ELSE [ok |-> TRUE, m |-> [m EXCEPT !.status = APPROVED]]

\* Mutant of enhanced_execute: the status test is dropped.
enhanced_execute_unguarded(m, t) ==
    [ok |-> TRUE, m |-> [m EXCEPT !.status = EXECUTED, !.executed_at = t]]

\* Mutant of enhanced_execute: executed_at is not stamped.
enhanced_execute_unstamped(m, t) ==
    IF m.status # APPROVED THEN [ok |-> FALSE, m |-> m]
    ELSE [ok |-> TRUE, m |-> [m EXCEPT !.status = EXECUTED]]

\* EnhancedAP2Mandate.approve
enhanced_approve(m) ==
    IF m.status # PENDING THEN [ok |-> FALSE, m |-> m]
    ELSE IF ~verify_cryptographic_proof(m) THEN [ok |-> FALSE, m |-> m]
    ELSE [ok |-> TRUE, m |-> [m EXCEPT !.status = APPROVED]]

\* EnhancedAP2Mandate.execute
enhanced_execute(m, t) ==
    IF m.status # APPROVED THEN [ok |-> FALSE, m |-> m]
    ELSE [ok |-> TRUE,
          m |-> [m EXCEPT !.status = EXECUTED, !.executed_at = t]]

(***************************************************************************)
(* Registry.  mandates is the dictionary of the running protocol object,   *)
(* in insertion order; a mandate's id (a uuid4 in the source) is its       *)
(* position.                                                               *)
(***************************************************************************)
Ids == 1..Len(mandates)

next_id == Len(mandates) + 1

(***************************************************************************)
(* Persistence.  ap2_transactions is the Firestore collection of that      *)
(* name: it maps the id of a stored mandate to its document, of which the  *)
(* status is kept.  avail says whether a Firestore client is to be had.    *)
(***************************************************************************)
\* utils/firestore_db.py create_ap2_transaction: what it returns and the
\* collection it leaves behind
create_ap2_transaction(store, avail, transaction_id, transaction_data) ==
    IF ~avail THEN [success |-> FALSE, store |-> store]
    ELSE [success |-> TRUE,
          store |-> (transaction_id :> transaction_data) @@ store]

\* src/ap2_agent.py: db.collection('ap2_transactions').document(id).set(...)
\* under "if db:"
agent_set(store, avail, mandate_id, mandate_data) ==
    IF avail THEN (mandate_id :> mandate_data) @@ store ELSE store

\* src/ap2_agent.py: ...document(id).update({"status": ...}) under "if db:";
\* updating a document that does not exist raises, and the handler carries on
agent_update(store, avail, mandate_id, status) ==
    IF avail /\ mandate_id \in DOMAIN store
    THEN [store EXCEPT ![mandate_id].status = status]
    ELSE store

\* A request thread of the Flask application that serves no request.
Idle ==
    [pc |-> "idle", mandate_id |-> 0, approved |-> FALSE, ok |-> FALSE,
     expired_ids |-> {}]

InitRegistry ==
    /\ impl \in {"basic", "enhanced"}
    /\ now = 0
    /\ mandates = <<>>
    /\ ap2_transactions = <<>>
    /\ requests = [th \in Threads |-> Idle]

Init == InitRegistry /\ db = FALSE

\* AP2Protocol.create_intent_mandate
AP2Protocol_create_intent_mandate(user_id, intent_data) ==
    /\ impl = "basic"
    /\ Len(mandates) < MaxMandates
    /\ mandates' = Append(mandates,
                     AP2Mandate(next_id, INTENT, user_id, intent_data, now))
    /\ UNCHANGED <<impl, now, db, ap2_transactions, requests>>

\* AP2Protocol.create_cart_mandate
AP2Protocol_create_cart_mandate(user_id, cart_data) ==
    /\ impl = "basic"
    /\ Len(mandates) < MaxMandates
    /\ mandates' = Append(mandates,
                     AP2Mandate(next_id, CART, user_id, cart_data, now))
    /\ UNCHANGED <<impl, now, db, ap2_transactions, requests>>

\* AP2Protocol.create_payment_mandate
AP2Protocol_create_payment_mandate(user_id, payment_data) ==
    /\ impl = "basic"
    /\ Len(mandates) < MaxMandates
    /\ mandates' = Append(mandates,
                     AP2Mandate(next_id, PAYMENT, user_id, payment_data, now))
    /\ UNCHANGED <<impl, now, db, ap2_transactions, requests>>

\* routes/ap2.py create_intent_mandate: create, then approve the safe intents
route_create_intent_mandate(uid, data) ==
    /\ impl = "basic"
    /\ Len(mandates) < MaxMandates
    /\ LET mandate == AP2Mandate(next_id, INTENT, uid, data, now)
           stored == IF data.intent_type \in safe_intents
                     THEN approve(mandate, now).m
                     ELSE mandate
       IN  /\ mandates' = Append(mandates, stored)
           /\ ap2_transactions' =
                  create_ap2_transaction(ap2_transactions, db, stored.id,
                                         [status |-> stored.status]).store
    /\ UNCHANGED <<impl, now, db, requests>>

\* routes/ap2.py create_cart_mandate: create, then approve totals under 50
route_create_cart_mandate(uid, data) ==
    /\ impl = "basic"
    /\ Len(mandates) < MaxMandates
    /\ LET mandate == AP2Mandate(next_id, CART, uid, data, now)
           stored == IF data.total_amount < RouteCartLimit
                     THEN approve(mandate, now).m
                     ELSE mandate
       IN  /\ mandates' = Append(mandates, stored)
           /\ ap2_transactions' =
                  create_ap2_transaction(ap2_transactions, db, stored.id,
                                         [status |-> stored.status]).store
    /\ UNCHANGED <<impl, now, db, requests>>

\* routes/ap2.py create_payment_mandate: create, then approve emergency
\* purposes under 100
route_create_payment_mandate(uid, data) ==
    /\ impl = "basic"
    /\ Len(mandates) < MaxMandates
    /\ LET mandate == AP2Mandate(next_id, PAYMENT, uid, data, now)
           stored == IF data.purpose = "emergency"
                        /\ data.amount < RoutePaymentLimit
                     THEN approve(mandate, now).m
                     ELSE mandate
       IN  /\ mandates' = Append(mandates, stored)
           /\ ap2_transactions' =
                  create_ap2_transaction(ap2_transactions, db, stored.id,
                                         [status |-> stored.status]).store
    /\ UNCHANGED <<impl, now, db, requests>>

\* What a handler of routes/ap2.py answers once the mandate is found: 403 to
\* a caller who is not the owner, else 200 or 400 as the entity call r went.
\* code is the HTTP status, m the mandate the request leaves behind.
route_response(uid, m, r) ==
    IF m.user_id # uid THEN [code |-> 403, m |-> m]
    ELSE [code |-> IF r.ok THEN 200 ELSE 400, m |-> r.m]

\* routes/ap2.py approve_mandate, from the ownership test on
route_approve_response(uid, m, t) == route_response(uid, m, approve(m, t))

\* routes/ap2.py execute_mandate, from the ownership test on
route_execute_response(uid, m, t) == route_response(uid, m, execute(m, t))

\* routes/ap2.py cancel_mandate, from the ownership test on
route_cancel_response(uid, m) == route_response(uid, m, cancel(m))

\* routes/ap2.py approve_mandate -> AP2Protocol.approve_mandate
route_approve_mandate(uid, mandate_id) ==
    /\ impl = "basic"
    /\ mandate_id \in Ids
    /\ mandates' = [mandates EXCEPT
                      ![mandate_id] = route_approve_response(uid, @, now).m]
    /\ UNCHANGED <<impl, now, db, ap2_transactions, requests>>

\* routes/ap2.py execute_mandate -> AP2Protocol.execute_mandate
route_execute_mandate(uid, mandate_id) ==
    /\ impl = "basic"
    /\ mandate_id \in Ids
    /\ mandates' = [mandates EXCEPT
                      ![mandate_id] = route_execute_response(uid, @, now).m]
    /\ UNCHANGED <<impl, now, db, ap2_transactions, requests>>

\* routes/ap2.py cancel_mandate
route_cancel_mandate(uid, mandate_id) ==
    /\ impl = "basic"
    /\ mandate_id \in Ids
    /\ mandates' = [mandates EXCEPT
                      ![mandate_id] = route_cancel_response(uid, @).m]
    /\ UNCHANGED <<impl, now, db, ap2_transactions, requests>>

\* sorted(..., key=created_at, reverse=True): a stable sort, so a mandate
\* stands behind those created later and behind those created at the same
\* instant that stood before it.
sorted_newest_first(ms) ==
    LET place(k) ==
            1 + Cardinality({j \in DOMAIN ms :
                               \/ ms[j].created_at > ms[k].created_at
                               \/ /\ ms[j].created_at = ms[k].created_at
                                  /\ j < k})
    IN  [p \in DOMAIN ms |-> ms[CHOOSE k \in DOMAIN ms : place(k) = p]]

\* The status argument of get_user_mandates when the caller gives no filter
NoFilter == "none"

\* The mandates get_user_mandates selects, before it sorts them
user_mandates(ms, user_id, status) ==
    LET owned == SelectSeq(ms, LAMBDA m : m.user_id = user_id)
    IN  IF status # NoFilter
        THEN SelectSeq(owned, LAMBDA m : m.status = status)
        ELSE owned

\* Mutant of get_user_mandates: the selection is returned as it stands in
\* the registry.
get_user_mandates_unsorted(ms, user_id, status) ==
    user_mandates(ms, user_id, status)

\* AP2Protocol.get_user_mandates and EnhancedAP2Protocol.get_user_mandates;
\* status is NoFilter when the caller gives none.
get_user_mandates(ms, user_id, status) ==
    sorted_newest_first(user_mandates(ms, user_id, status))

\* Mutant of basic_expired: Executed and Cancelled mandates are not excluded.
expired_any_status(m, current_time) == current_time > m.expires_at

\* The condition under which AP2Protocol.cleanup_expired_mandates collects m
basic_expired(m, current_time) ==
    /\ current_time > m.expires_at
    /\ m.status \notin {EXECUTED, CANCELLED}

\* Mutant of expired_ids: the clock is not compared with expires_at.
expired_ids_untimed(ms, current_time) ==
    {i \in DOMAIN ms : ms[i].status \notin {EXECUTED, CANCELLED}}

\* The ids AP2Protocol.cleanup_expired_mandates collects in expired_ids
expired_ids(ms, current_time) ==
    {i \in DOMAIN ms : basic_expired(ms[i], current_time)}

\* Mutant of basic_after_cleanup: the collected mandates are removed from
\* the registry.
basic_after_cleanup_removing(ms, current_time) ==
    SelectSeq(ms, LAMBDA m : ~basic_expired(m, current_time))

\* The registry AP2Protocol.cleanup_expired_mandates leaves behind
basic_after_cleanup(ms, current_time) ==
    [i \in DOMAIN ms |->
       IF i \in expired_ids(ms, current_time)
       THEN [ms[i] EXCEPT !.status = EXPIRED]
       ELSE ms[i]]

\* The count AP2Protocol.cleanup_expired_mandates returns
basic_cleanup_count(ms, current_time) ==
    Cardinality(expired_ids(ms, current_time))

\* AP2Protocol.cleanup_expired_mandates (routes/ap2.py cleanup_expired_mandates)
cleanup_expired_mandates ==
    /\ impl = "basic"
    /\ mandates' = basic_after_cleanup(mandates, now)
    /\ UNCHANGED <<impl, now, db, ap2_transactions, requests>>

(***************************************************************************)
(* Registry, enhanced implementation (EnhancedAP2Protocol), and the        *)
(* handlers of src/ap2_agent.py that reach it.                             *)
(***************************************************************************)
\* Mutant of auto_approved: the factory returns the mandate as constructed.
not_auto_approved(mandate) == mandate

\* The tail of the three factory methods: approve what can_auto_approve admits
auto_approved(mandate) ==
    IF can_auto_approve(mandate) THEN enhanced_approve(mandate).m ELSE mandate

\* EnhancedAP2Protocol.create_intent_mandate
create_intent_mandate(user_id, intent_data) ==
    /\ impl = "enhanced"
    /\ Len(mandates) < MaxMandates
    /\ mandates' = Append(mandates,
                     auto_approved(EnhancedAP2Mandate(next_id, INTENT, user_id,
                                                      intent_data, now, next_id)))
    /\ UNCHANGED <<impl, now, db, ap2_transactions, requests>>

\* Mutant of create_cart_mandate: the mandate is stored as constructed.
create_cart_mandate_unapproved(user_id, cart_data) ==
    /\ impl = "enhanced"
    /\ Len(mandates) < MaxMandates
    /\ mandates' = Append(mandates,
                     EnhancedAP2Mandate(next_id, CART, user_id, cart_data,
                                        now, next_id))
    /\ UNCHANGED <<impl, now, db, ap2_transactions, requests>>

\* EnhancedAP2Protocol.create_cart_mandate
create_cart_mandate(user_id, cart_data) ==
    /\ impl = "enhanced"
    /\ Len(mandates) < MaxMandates
    /\ mandates' = Append(mandates,
                     auto_approved(EnhancedAP2Mandate(next_id, CART, user_id,
                                                      cart_data, now, next_id)))
    /\ UNCHANGED <<impl, now, db, ap2_transactions, requests>>

\* EnhancedAP2Protocol.create_payment_mandate
create_payment_mandate(user_id, payment_data) ==
    /\ impl = "enhanced"
    /\ Len(mandates) < MaxMandates
    /\ mandates' = Append(mandates,
                     auto_approved(EnhancedAP2Mandate(next_id, PAYMENT, user_id,
                                                      payment_data, now, next_id)))
    /\ UNCHANGED <<impl, now, db, ap2_transactions, requests>>

\* src/ap2_agent.py create_intent_mandate: the factory, then the document
agent_create_intent_mandate(user_id, intent_data) ==
    /\ impl = "enhanced"
    /\ Len(mandates) < MaxMandates
    /\ LET mandate == auto_approved(EnhancedAP2Mandate(next_id, INTENT, user_id,
                                                       intent_data, now, next_id))
       IN  /\ mandates' = Append(mandates, mandate)
           /\ ap2_transactions' =
                  agent_set(ap2_transactions, db, mandate.id,
                            [status |-> mandate.status])
    /\ UNCHANGED <<impl, now, db, requests>>

\* src/ap2_agent.py create_cart_mandate: the factory, then the document
agent_create_cart_mandate(user_id, cart_data) ==
    /\ impl = "enhanced"
    /\ Len(mandates) < MaxMandates
    /\ LET mandate == auto_approved(EnhancedAP2Mandate(next_id, CART, user_id,
                                                       cart_data, now, next_id))
       IN  /\ mandates' = Append(mandates, mandate)
           /\ ap2_transactions' =
                  agent_set(ap2_transactions, db, mandate.id,
                            [status |-> mandate.status])
    /\ UNCHANGED <<impl, now, db, requests>>

\* src/ap2_agent.py create_payment_mandate: the factory, then the document
agent_create_payment_mandate(user_id, payment_data) ==
    /\ impl = "enhanced"
    /\ Len(mandates) < MaxMandates
    /\ LET mandate == auto_approved(EnhancedAP2Mandate(next_id, PAYMENT, user_id,
                                                       payment_data, now, next_id))
       IN  /\ mandates' = Append(mandates, mandate)
           /\ ap2_transactions' =
                  agent_set(ap2_transactions, db, mandate.id,
                            [status |-> mandate.status])
    /\ UNCHANGED <<impl, now, db, requests>>

\* What src/ap2_agent.py approve_mandate answers once the mandate is found.
\* The request carries no caller identity and the handler makes no ownership
\* test.
agent_approve_response(m) ==
    [code |-> IF enhanced_approve(m).ok THEN 200 ELSE 400,
     m |-> enhanced_approve(m).m]

\* What src/ap2_agent.py execute_mandate answers once the mandate is found
agent_execute_response(m, t) ==
    [code |-> IF enhanced_execute(m, t).ok THEN 200 ELSE 400,
     m |-> enhanced_execute(m, t).m]

\* src/ap2_agent.py approve_mandate
agent_approve_mandate(mandate_id) ==
    /\ impl = "enhanced"
    /\ mandate_id \in Ids
    /\ LET response == agent_approve_response(mandates[mandate_id])
       IN  /\ mandates' = [mandates EXCEPT ![mandate_id] = response.m]
           /\ ap2_transactions' =
                  IF response.code = 200
                  THEN agent_update(ap2_transactions, db, mandate_id,
                                    response.m.status)
                  ELSE ap2_transactions
    /\ UNCHANGED <<impl, now, db, requests>>

\* src/ap2_agent.py execute_mandate
agent_execute_mandate(mandate_id) ==
    /\ impl = "enhanced"
    /\ mandate_id \in Ids
    /\ LET response == agent_execute_response(mandates[mandate_id], now)
       IN  /\ mandates' = [mandates EXCEPT ![mandate_id] = response.m]
           /\ ap2_transactions' =
                  IF response.code = 200
                  THEN agent_update(ap2_transactions, db, mandate_id,
                                    response.m.status)
                  ELSE ap2_transactions
    /\ UNCHANGED <<impl, now, db, requests>>

\* Mutant of after_auto_approvals: every Pending mandate is approved.
after_auto_approvals_unconditional(ms) ==
    [i \in DOMAIN ms |->
       IF ms[i].status = PENDING THEN enhanced_approve(ms[i]).m ELSE ms[i]]

\* The count EnhancedAP2Protocol.process_auto_approvals returns: one for
\* each mandate that passes its test, whatever approve answers
auto_approval_count(ms) ==
    Cardinality({i \in DOMAIN ms :
                   ms[i].status = PENDING /\ can_auto_approve(ms[i])})

\* The registry EnhancedAP2Protocol.process_auto_approvals leaves behind
after_auto_approvals(ms) ==
    [i \in DOMAIN ms |->
       IF ms[i].status = PENDING /\ can_auto_approve(ms[i])
       THEN enhanced_approve(ms[i]).m
       ELSE ms[i]]

\* Mutant of after_cleanup: the comparison with the clock is reversed.
after_cleanup_reversed(ms, t) ==
    [i \in DOMAIN ms |->
       IF ms[i].status = PENDING /\ ms[i].expires_at > t
       THEN [ms[i] EXCEPT !.status = EXPIRED]
       ELSE ms[i]]

\* The registry EnhancedAP2Protocol.cleanup_expired_mandates leaves behind
after_cleanup(ms, t) ==
    [i \in DOMAIN ms |->
       IF ms[i].status = PENDING /\ ms[i].expires_at < t
       THEN [ms[i] EXCEPT !.status = EXPIRED]
       ELSE ms[i]]

\* The count EnhancedAP2Protocol.cleanup_expired_mandates returns
expired_count(ms, t) ==
    Cardinality({i \in DOMAIN ms :
                   ms[i].status = PENDING /\ ms[i].expires_at < t})

\* EnhancedAP2Protocol.process_auto_approvals
process_auto_approvals ==
    /\ impl = "enhanced"
    /\ mandates' = after_auto_approvals(mandates)
    /\ UNCHANGED <<impl, now, db, ap2_transactions, requests>>

\* EnhancedAP2Protocol.cleanup_expired_mandates
enhanced_cleanup_expired_mandates ==
    /\ impl = "enhanced"
    /\ mandates' = after_cleanup(mandates, now)
    /\ UNCHANGED <<impl, now, db, ap2_transactions, requests>>

\* src/ap2_agent.py process_auto_approvals: both sweeps, in this order
agent_process_auto_approvals ==
    /\ impl = "enhanced"
    /\ mandates' = after_cleanup(after_auto_approvals(mandates), now)
    /\ UNCHANGED <<impl, now, db, ap2_transactions, requests>>

(***************************************************************************)
(* Environment.                                                            *)
(***************************************************************************)
\* The clock advances.
Tick ==
    /\ now + TickHours <= MaxNow
    /\ now' = now + TickHours
    /\ UNCHANGED <<impl, mandates, db, ap2_transactions, requests>>

\* mandate.data is the caller's dictionary, kept by reference: whoever holds
\* it rewrites the payload of a registered mandate without re-signing it.
Tamper(mandate_id, data) ==
    /\ mandate_id \in Ids
    /\ data \in TamperData(mandates[mandate_id].type)
    /\ data # mandates[mandate_id].data
    /\ mandates' = [mandates EXCEPT ![mandate_id].data = data]
    /\ UNCHANGED <<impl, now, db, ap2_transactions, requests>>

\* The Firestore client becomes available or is lost.
Firestore(available) ==
    /\ db # available
    /\ db' = available
    /\ UNCHANGED <<impl, now, mandates, ap2_transactions, requests>>

(***************************************************************************)
(* An execute request of the Flask application, step by step.  The         *)
(* application serves each request on a thread of its own and nothing in   *)
(* routes/ap2.py or utils/ap2_protocol.py takes a lock, so the steps of    *)
(* two requests interleave.  approved records whether the request came    *)
(* from the owner while the mandate was Approved and valid.                *)
(***************************************************************************)
\* routes/ap2.py execute_mandate: lookup and ownership test
execute_request(th, uid, mandate_id) ==
    /\ impl = "basic"
    /\ requests[th].pc = "idle"
    /\ mandate_id \in Ids
    /\ LET m == mandates[mandate_id]
       IN  requests' =
             [requests EXCEPT ![th] =
                [pc |-> IF m.user_id # uid THEN "done" ELSE "check",
                 mandate_id |-> mandate_id,
                 approved |-> /\ m.user_id = uid
                              /\ is_valid(m, now)
                              /\ m.status = APPROVED,
                 ok |-> FALSE,
                 expired_ids |-> {}]]
    /\ UNCHANGED <<impl, now, mandates, db, ap2_transactions>>

\* AP2Mandate.execute: the test "self.is_valid() and self.status == APPROVED"
execute_check(th) ==
    /\ requests[th].pc = "check"
    /\ LET m == mandates[requests[th].mandate_id]
       IN  requests' =
             [requests EXCEPT ![th].pc =
                IF is_valid(m, now) /\ m.status = APPROVED
                THEN "write" ELSE "done"]
    /\ UNCHANGED <<impl, now, mandates, db, ap2_transactions>>

\* AP2Mandate.execute: the assignments to status and executed_at, and the
\* success the request goes on to report
execute_write(th) ==
    /\ requests[th].pc = "write"
    /\ mandates' = [mandates EXCEPT
                      ![requests[th].mandate_id].status = EXECUTED,
                      ![requests[th].mandate_id].executed_at = now]
    /\ requests' = [requests EXCEPT ![th].pc = "done", ![th].ok = TRUE]
    /\ UNCHANGED <<impl, now, db, ap2_transactions>>

\* routes/ap2.py execute_mandate: the response is sent
execute_return(th) ==
    /\ requests[th].pc = "done"
    /\ requests' = [requests EXCEPT ![th] = Idle]
    /\ UNCHANGED <<impl, now, mandates, db, ap2_transactions>>

(***************************************************************************)
(* The approve and cancel requests and the sweep of the Flask application, *)
(* step by step.  pc names the request a thread serves and the step it is  *)
(* at; expired_ids is the list the sweep has collected.                    *)
(***************************************************************************)
\* routes/ap2.py approve_mandate: lookup and ownership test
approve_request(th, uid, mandate_id) ==
    /\ impl = "basic"
    /\ requests[th].pc = "idle"
    /\ mandate_id \in Ids
    /\ requests' =
         [requests EXCEPT ![th] =
            [Idle EXCEPT !.pc = IF mandates[mandate_id].user_id # uid
                                THEN "approve_done" ELSE "approve_check",
                         !.mandate_id = mandate_id]]
    /\ UNCHANGED <<impl, now, mandates, db, ap2_transactions>>

\* AP2Mandate.approve: the test "self.is_valid() and self.status == PENDING"
approve_check(th) ==
    /\ requests[th].pc = "approve_check"
    /\ LET m == mandates[requests[th].mandate_id]
       IN  requests' =
             [requests EXCEPT ![th].pc =
                IF is_valid(m, now) /\ m.status = PENDING
                THEN "approve_write" ELSE "approve_done"]
    /\ UNCHANGED <<impl, now, mandates, db, ap2_transactions>>

\* AP2Mandate.approve: the assignment to status, and the success the request
\* goes on to report
approve_write(th) ==
    /\ requests[th].pc = "approve_write"
    /\ mandates' = [mandates EXCEPT
                      ![requests[th].mandate_id].status = APPROVED]
    /\ requests' = [requests EXCEPT ![th].pc = "approve_done", ![th].ok = TRUE]
    /\ UNCHANGED <<impl, now, db, ap2_transactions>>

\* routes/ap2.py approve_mandate: the response is sent
approve_return(th) ==
    /\ requests[th].pc = "approve_done"
    /\ requests' = [requests EXCEPT ![th] = Idle]
    /\ UNCHANGED <<impl, now, mandates, db, ap2_transactions>>

\* routes/ap2.py cancel_mandate: lookup and ownership test
cancel_request(th, uid, mandate_id) ==
    /\ impl = "basic"
    /\ requests[th].pc = "idle"
    /\ mandate_id \in Ids
    /\ requests' =
         [requests EXCEPT ![th] =
            [Idle EXCEPT !.pc = IF mandates[mandate_id].user_id # uid
                                THEN "cancel_done" ELSE "cancel_check",
                         !.mandate_id = mandate_id]]
    /\ UNCHANGED <<impl, now, mandates, db, ap2_transactions>>

\* AP2Mandate.cancel: the test "self.status == PENDING"
cancel_check(th) ==
    /\ requests[th].pc = "cancel_check"
    /\ requests' =
         [requests EXCEPT ![th].pc =
            IF mandates[requests[th].mandate_id].status = PENDING
            THEN "cancel_write" ELSE "cancel_done"]
    /\ UNCHANGED <<impl, now, mandates, db, ap2_transactions>>

\* AP2Mandate.cancel: the assignment to status, and the success the request
\* goes on to report
cancel_write(th) ==
    /\ requests[th].pc = "cancel_write"
    /\ mandates' = [mandates EXCEPT
                      ![requests[th].mandate_id].status = CANCELLED]
    /\ requests' = [requests EXCEPT ![th].pc = "cancel_done", ![th].ok = TRUE]
    /\ UNCHANGED <<impl, now, db, ap2_transactions>>

\* routes/ap2.py cancel_mandate: the response is sent
cancel_return(th) ==
    /\ requests[th].pc = "cancel_done"
    /\ requests' = [requests EXCEPT ![th] = Idle]
    /\ UNCHANGED <<impl, now, mandates, db, ap2_transactions>>

\* AP2Protocol.cleanup_expired_mandates: the clock is read and expired_ids
\* is collected
cleanup_collect(th) ==
    /\ impl = "basic"
    /\ requests[th].pc = "idle"
    /\ requests' =
         [requests EXCEPT ![th] =
            [Idle EXCEPT !.pc = "cleanup_write",
                         !.expired_ids = expired_ids(mandates, now)]]
    /\ UNCHANGED <<impl, now, mandates, db, ap2_transactions>>

\* AP2Protocol.cleanup_expired_mandates: the loop over expired_ids, and the
\* response
cleanup_write(th) ==
    /\ requests[th].pc = "cleanup_write"
    /\ mandates' =
         [i \in DOMAIN mandates |->
            IF i \in requests[th].expired_ids
            THEN [mandates[i] EXCEPT !.status = EXPIRED]
            ELSE mandates[i]]
    /\ requests' = [requests EXCEPT ![th] = Idle]
    /\ UNCHANGED <<impl, now, db, ap2_transactions>>

Next ==
    \/ \E u \in Users, d \in IntentData : AP2Protocol_create_intent_mandate(u, d)
    \/ \E u \in Users, d \in CartData : AP2Protocol_create_cart_mandate(u, d)
    \/ \E u \in Users, d \in PaymentData : AP2Protocol_create_payment_mandate(u, d)
    \/ \E u \in Users, d \in IntentData : route_create_intent_mandate(u, d)
    \/ \E u \in Users, d \in CartData : route_create_cart_mandate(u, d)
    \/ \E u \in Users, d \in PaymentData : route_create_payment_mandate(u, d)
    \/ \E u \in Users, i \in Ids : route_approve_mandate(u, i)
    \/ \E u \in Users, i \in Ids : route_execute_mandate(u, i)
    \/ \E u \in Users, i \in Ids : route_cancel_mandate(u, i)
    \/ cleanup_expired_mandates
    \/ \E u \in Users, d \in IntentData : create_intent_mandate(u, d)
    \/ \E u \in Users, d \in CartData : create_cart_mandate(u, d)
    \/ \E u \in Users, d \in PaymentData : create_payment_mandate(u, d)
    \/ \E u \in Users, d \in IntentData : agent_create_intent_mandate(u, d)
    \/ \E u \in Users, d \in CartData : agent_create_cart_mandate(u, d)
    \/ \E u \in Users, d \in PaymentData : agent_create_payment_mandate(u, d)
    \/ \E i \in Ids : agent_approve_mandate(i)
    \/ \E i \in Ids : agent_execute_mandate(i)
    \/ process_auto_approvals
    \/ enhanced_cleanup_expired_mandates
    \/ agent_process_auto_approvals
    \/ Tick
    \/ \E i \in Ids : \E d \in TamperData(mandates[i].type) : Tamper(i, d)

Spec == Init /\ [][Next]_vars

(***************************************************************************)
(* Payment requests at the auto-approval ceiling.  The payment handlers    *)
(* that auto-approve and the sweeps run on amounts next to the ceiling of  *)
(* 100.                                                                    *)
(***************************************************************************)
CeilingAmounts == {PaymentCeiling - 1, PaymentCeiling, PaymentCeiling + 1}

CeilingPaymentData ==
    [amount : CeilingAmounts, purpose : Purposes, urgency : Urgencies]

NextCeiling ==
    \/ \E u \in Users, d \in CeilingPaymentData :
          route_create_payment_mandate(u, d)
    \/ \E u \in Users, d \in CeilingPaymentData : create_payment_mandate(u, d)
    \/ \E u \in Users, d \in CeilingPaymentData :
          agent_create_payment_mandate(u, d)
    \/ process_auto_approvals
    \/ agent_process_auto_approvals
    \/ Tick

SpecCeiling == Init /\ [][NextCeiling]_vars

(***************************************************************************)
(* The two applications with a Firestore client that comes and goes.       *)
(***************************************************************************)
(***************************************************************************)
(* Listing.  The registry starts with up to MaxListed mandates, created in *)
(* this order at the start or one tick later; the requests that follow     *)
(* change their statuses.                                                  *)
(***************************************************************************)
\* The mandate the factory of the running implementation registers
created_mandate(id, user_id, t) ==
    IF impl = "basic"
    THEN AP2Mandate(id, INTENT, user_id, [intent_type |-> "custom"], t)
    ELSE auto_approved(EnhancedAP2Mandate(id, INTENT, user_id,
                                          [intent_type |-> "custom"], t, id))

InitList ==
    /\ impl \in {"basic", "enhanced"}
    /\ db = FALSE
    /\ ap2_transactions = <<>>
    /\ requests = [th \in Threads |-> Idle]
    /\ \E n \in 0..MaxListed :
         \E owner \in [1..n -> Users], at \in [1..n -> {0, TickHours}] :
            /\ \A i \in 1..n : \A j \in i..n : at[i] <= at[j]
            /\ mandates = [i \in 1..n |-> created_mandate(i, owner[i], at[i])]
            /\ now = IF n = 0 THEN 0 ELSE at[n]

NextList ==
    \/ \E uid \in Users, mandate_id \in Ids : route_approve_mandate(uid, mandate_id)
    \/ \E uid \in Users, mandate_id \in Ids : route_cancel_mandate(uid, mandate_id)
    \/ \E mandate_id \in Ids : agent_approve_mandate(mandate_id)
    \/ \E mandate_id \in Ids : agent_execute_mandate(mandate_id)
    \/ Tick

SpecList == InitList /\ [][NextList]_vars

(***************************************************************************)
(* Creation requests as the endpoints receive them.  A body is a JSON      *)
(* object, here a record that may lack fields; the Flask handlers test the *)
(* body themselves, the FastAPI handlers leave it to their pydantic        *)
(* models.                                                                 *)
(***************************************************************************)
EmptyBody == <<>>

\* dict.get(field, default)
get(body, field, default) ==
    IF field \in DOMAIN body THEN body[field] ELSE default

ItemLists == {<<>>} \cup {<<[amount |-> a]>> : a \in CartAmounts}

\* The bodies sent to the Flask endpoints; the caller is known from the token
RouteIntentBodies == IntentData \cup {EmptyBody}
RouteCartBodies == [items : ItemLists] \cup {EmptyBody}
RoutePaymentBodies ==
    PaymentData \cup [amount : PaymentAmounts] \cup [purpose : Purposes]
    \cup {EmptyBody}

\* The bodies sent to the FastAPI endpoints
IntentMandateRequest ==
    [user_id : Users, intent_type : IntentTypes] \cup [user_id : Users]
CartMandateRequest ==
    [user_id : Users, items : ItemLists, total_amount : CartAmounts]
    \cup [user_id : Users, total_amount : CartAmounts]
PaymentMandateRequest ==
    [user_id : Users, amount : PaymentAmounts, purpose : Purposes,
     urgency : Urgencies]
    \cup [user_id : Users, amount : PaymentAmounts]
    \cup [user_id : Users, purpose : Purposes]

\* sum(item.get("amount", 0) for item in items)
total_amount(items) ==
    LET partial[k \in 0..Len(items)] ==
            IF k = 0 THEN 0 ELSE partial[k - 1] + get(items[k], "amount", 0)
    IN  partial[Len(items)]

\* POST /api/ap2/mandates/intent: 400 unless intent_type is given
post_ap2_mandates_intent(uid, body) ==
    IF get(body, "intent_type", "") = ""
    THEN impl = "basic" /\ UNCHANGED vars
    ELSE route_create_intent_mandate(uid, body)

\* POST /api/ap2/mandates/cart: 400 unless items are given; the total is
\* computed from the items
post_ap2_mandates_cart(uid, body) ==
    IF get(body, "items", <<>>) = <<>>
    THEN impl = "basic" /\ UNCHANGED vars
    ELSE route_create_cart_mandate(uid,
             [total_amount |-> total_amount(body.items)])

\* POST /api/ap2/mandates/payment: 400 unless amount and purpose are given
post_ap2_mandates_payment(uid, body) ==
    IF get(body, "amount", 0) = 0 \/ get(body, "purpose", "") = ""
    THEN impl = "basic" /\ UNCHANGED vars
    ELSE route_create_payment_mandate(uid, body)

\* POST /api/mandates/intent: IntentMandateRequest requires user_id and
\* intent_type
post_mandates_intent(request) ==
    IF ~({"user_id", "intent_type"} \subseteq DOMAIN request)
    THEN impl = "enhanced" /\ UNCHANGED vars
    ELSE agent_create_intent_mandate(request.user_id,
             [intent_type |-> request.intent_type])

\* POST /api/mandates/cart: CartMandateRequest requires user_id, items (a
\* list of any length) and total_amount
post_mandates_cart(request) ==
    IF ~({"user_id", "items", "total_amount"} \subseteq DOMAIN request)
    THEN impl = "enhanced" /\ UNCHANGED vars
    ELSE agent_create_cart_mandate(request.user_id,
             [total_amount |-> request.total_amount])

\* POST /api/mandates/payment: PaymentMandateRequest requires user_id,
\* amount and purpose; urgency is "normal" when not given
post_mandates_payment(request) ==
    IF ~({"user_id", "amount", "purpose"} \subseteq DOMAIN request)
    THEN impl = "enhanced" /\ UNCHANGED vars
    ELSE agent_create_payment_mandate(request.user_id,
             [amount |-> request.amount, purpose |-> request.purpose,
              urgency |-> get(request, "urgency", "normal")])

NextRequests ==
    \/ \E uid \in Users, body \in RouteIntentBodies :
          post_ap2_mandates_intent(uid, body)
    \/ \E uid \in Users, body \in RouteCartBodies :
          post_ap2_mandates_cart(uid, body)
    \/ \E uid \in Users, body \in RoutePaymentBodies :
          post_ap2_mandates_payment(uid, body)
    \/ \E request \in IntentMandateRequest : post_mandates_intent(request)
    \/ \E request \in CartMandateRequest : post_mandates_cart(request)
    \/ \E request \in PaymentMandateRequest : post_mandates_payment(request)
    \/ Tick

InitRequests == InitRegistry /\ db = TRUE

SpecRequests == InitRequests /\ [][NextRequests]_vars

InitStore == InitRegistry /\ db \in BOOLEAN

NextStore ==
    \/ Next
    \/ \E available \in BOOLEAN : Firestore(available)

SpecStore == InitStore /\ [][NextStore]_vars

(***************************************************************************)
(* The Flask application with its execute requests served concurrently.    *)
(***************************************************************************)
InitConc == InitRegistry /\ impl = "basic" /\ db = TRUE

NextConc ==
    \/ \E u \in Users, d \in IntentData : route_create_intent_mandate(u, d)
    \/ \E u \in Users, d \in CartData : route_create_cart_mandate(u, d)
    \/ \E u \in Users, d \in PaymentData : route_create_payment_mandate(u, d)
    \/ \E u \in Users, i \in Ids : route_approve_mandate(u, i)
    \/ \E th \in Threads, u \in Users, i \in Ids : execute_request(th, u, i)
    \/ \E th \in Threads : execute_check(th)
    \/ \E th \in Threads : execute_write(th)
    \/ \E th \in Threads : execute_return(th)
    \/ Tick

SpecConc == InitConc /\ [][NextConc]_vars

(***************************************************************************)
(* The Flask application with approve, cancel, execute and the sweep       *)
(* served concurrently on intent mandates.                                 *)
(***************************************************************************)
NextRace ==
    \/ \E u \in Users, d \in IntentData : route_create_intent_mandate(u, d)
    \/ \E th \in Threads, u \in Users, i \in Ids : approve_request(th, u, i)
    \/ \E th \in Threads : approve_check(th)
    \/ \E th \in Threads : approve_write(th)
    \/ \E th \in Threads : approve_return(th)
    \/ \E th \in Threads, u \in Users, i \in Ids : cancel_request(th, u, i)
    \/ \E th \in Threads : cancel_check(th)
    \/ \E th \in Threads : cancel_write(th)
    \/ \E th \in Threads : cancel_return(th)
    \/ \E th \in Threads, u \in Users, i \in Ids : execute_request(th, u, i)
    \/ \E th \in Threads : execute_check(th)
    \/ \E th \in Threads : execute_write(th)
    \/ \E th \in Threads : execute_return(th)
    \/ \E th \in Threads : cleanup_collect(th)
    \/ \E th \in Threads : cleanup_write(th)
    \/ Tick

SpecRace == InitConc /\ [][NextRace]_vars

(***************************************************************************)
(* Progress.  The clock keeps advancing and the sweep of the running       *)
(* implementation keeps being run; mandates are created while the clock    *)
(* can still pass their expiry.                                            *)
(***************************************************************************)
NextLive ==
    \/ /\ now + ExpiryHours < MaxNow
       /\ \E u \in Users, d \in IntentData : route_create_intent_mandate(u, d)
    \/ /\ now + ExpiryHours < MaxNow
       /\ \E u \in Users, d \in IntentData : agent_create_intent_mandate(u, d)
    \/ /\ now + ExpiryHours < MaxNow
       /\ \E u \in Users, d \in CartData : agent_create_cart_mandate(u, d)
    \/ \E u \in Users, i \in Ids : route_approve_mandate(u, i)
    \/ \E u \in Users, i \in Ids : route_execute_mandate(u, i)
    \/ \E u \in Users, i \in Ids : route_cancel_mandate(u, i)
    \/ \E i \in Ids : agent_approve_mandate(i)
    \/ \E i \in Ids : agent_execute_mandate(i)
    \/ cleanup_expired_mandates
    \/ enhanced_cleanup_expired_mandates
    \/ Tick

SpecLive ==
    /\ Init
    /\ [][NextLive]_vars
    /\ WF_vars(Tick)
    /\ WF_vars(cleanup_expired_mandates)
    /\ WF_vars(enhanced_cleanup_expired_mandates)

(***************************************************************************)
(* Vocabulary of the properties: the entity call of the running            *)
(* implementation.                                                         *)
(***************************************************************************)
Verifies(m) ==
    IF impl = "basic" THEN verify_signature(m)
    ELSE verify_cryptographic_proof(m)

ApproveCall(m) ==
    IF impl = "basic" THEN approve(m, now) ELSE enhanced_approve(m)

ExecuteCall(m) ==
    IF impl = "basic" THEN execute(m, now) ELSE enhanced_execute(m, now)

\* The fields of a mandate that its integrity tag is computed over.
SignedFields(m) ==
    IF impl = "basic"
    THEN [id |-> m.id, type |-> m.type, user_id |-> m.user_id,
          data |-> m.data, created_at |-> m.created_at]
    ELSE [id |-> m.id, type |-> m.type, user_id |-> m.user_id,
          data |-> m.data, created_at |-> m.created_at, nonce |-> m.nonce]

\* The copies of a mandate in which exactly one signed field has another
\* value and the stored tag is the one computed at signing.
AlteredCopies(m) ==
    {[m EXCEPT !.id = v] : v \in (1..(Len(mandates) + 1)) \ {m.id}}
    \cup {[m EXCEPT !.user_id = v] : v \in Users \ {m.user_id}}
    \cup {[m EXCEPT !.data = v] :
            v \in (CASE m.type = INTENT -> IntentData
                     [] m.type = CART -> CartData
                     [] m.type = PAYMENT -> PaymentData) \ {m.data}}
    \cup {[m EXCEPT !.created_at = v] :
            v \in {0, m.created_at + 1, now + 1} \ {m.created_at}}
    \cup (IF impl = "basic" THEN {}
          ELSE {[m EXCEPT !.nonce = v] :
                  v \in (1..(Len(mandates) + 1)) \ {m.nonce}})

\* The copies of a mandate that differ from it at most in expires_at, status
\* and executed_at.
UnsignedVariants(m) ==
    {[m EXCEPT !.expires_at = e] : e \in {m.expires_at + 1, now}}
    \cup {[m EXCEPT !.status = st] : st \in MandateStatus}
    \cup {[m EXCEPT !.executed_at = now],
          [m EXCEPT !.expires_at = now, !.status = EXECUTED,
                    !.executed_at = now]}

\* The approve and execute requests of the running implementation, made by
\* caller on a registered mandate m.
ApproveRequest(caller, m) ==
    IF impl = "basic" THEN route_approve_response(caller, m, now)
    ELSE agent_approve_response(m)

ExecuteRequest(caller, m) ==
    IF impl = "basic" THEN route_execute_response(caller, m, now)
    ELSE agent_execute_response(m, now)

\* cleanup_expired of the running implementation: the registry it leaves
\* behind and the count it returns.
CleanupCall(ms, t) ==
    IF impl = "basic" THEN basic_after_cleanup(ms, t) ELSE after_cleanup(ms, t)

CleanupCount(ms, t) ==
    IF impl = "basic" THEN basic_cleanup_count(ms, t) ELSE expired_count(ms, t)

Terminal == {EXECUTED, CANCELLED, EXPIRED}

LegalTransitions ==
    {<<PENDING, APPROVED>>, <<APPROVED, EXECUTED>>, <<PENDING, CANCELLED>>,
     <<PENDING, EXPIRED>>, <<APPROVED, EXPIRED>>}

\* The conditions the auto-approval policy names: the tag verifies, no manual
\* review is required (where the mandate carries trust metrics) and the
\* kind-specific hard cap holds.
AutoApprovalGuard(m) ==
    /\ Verifies(m)
    /\ impl = "enhanced" => ~m.trust_metrics.requires_manual_review
    /\ type_rule(m)

\* The mandates a step registers.
Created == (1..Len(mandates')) \ Ids

\* A step of a create, approve, execute or cancel handler of either
\* application.
StateChangingRequest ==
    \/ \E u \in Users, d \in IntentData : route_create_intent_mandate(u, d)
    \/ \E u \in Users, d \in CartData : route_create_cart_mandate(u, d)
    \/ \E u \in Users, d \in PaymentData : route_create_payment_mandate(u, d)
    \/ \E u \in Users, i \in Ids : route_approve_mandate(u, i)
    \/ \E u \in Users, i \in Ids : route_execute_mandate(u, i)
    \/ \E u \in Users, i \in Ids : route_cancel_mandate(u, i)
    \/ \E u \in Users, d \in IntentData : agent_create_intent_mandate(u, d)
    \/ \E u \in Users, d \in CartData : agent_create_cart_mandate(u, d)
    \/ \E u \in Users, d \in PaymentData : agent_create_payment_mandate(u, d)
    \/ \E i \in Ids : agent_approve_mandate(i)
    \/ \E i \in Ids : agent_execute_mandate(i)

\* The registries a factory method of the enhanced registry holds once it
\* has stored the new mandate and before it looks at can_auto_approve.
JustRegistered ==
    IF Len(mandates) >= MaxMandates THEN {}
    ELSE {Append(mandates,
                 EnhancedAP2Mandate(next_id, INTENT, u, d, now, next_id)) :
            u \in Users, d \in IntentData}
         \cup {Append(mandates,
                      EnhancedAP2Mandate(next_id, CART, u, d, now, next_id)) :
                 u \in Users, d \in CartData}
         \cup {Append(mandates,
                      EnhancedAP2Mandate(next_id, PAYMENT, u, d, now, next_id)) :
                 u \in Users, d \in PaymentData}

\* A step of an operation on registered mandates: approve, execute, cancel
\* or a sweep.
ProtocolOperation ==
    \/ \E u \in Users, i \in Ids : route_approve_mandate(u, i)
    \/ \E u \in Users, i \in Ids : route_execute_mandate(u, i)
    \/ \E u \in Users, i \in Ids : route_cancel_mandate(u, i)
    \/ cleanup_expired_mandates
    \/ \E i \in Ids : agent_approve_mandate(i)
    \/ \E i \in Ids : agent_execute_mandate(i)
    \/ process_auto_approvals
    \/ enhanced_cleanup_expired_mandates
    \/ agent_process_auto_approvals

\* A mandate with the two fields the operations write set to their values
\* at construction.
Unprocessed(m) == [m EXCEPT !.status = PENDING, !.executed_at = None]

(***************************************************************************)
(* Properties.                                                             *)
(***************************************************************************)

\* C1: every change of a mandate's status is Pending->Approved,
\* Approved->Executed, Pending->Cancelled, Pending->Expired or
\* Approved->Expired (so no status returns to Pending), and a mandate enters
\* the registry Pending, or Approved when creation auto-approved it.
C1_LegalTransitionsOnly ==
    [][/\ \A i \in Ids :
            \/ mandates'[i].status = mandates[i].status
            \/ <<mandates[i].status, mandates'[i].status>> \in LegalTransitions
       /\ \A i \in Created : mandates'[i].status \in {PENDING, APPROVED}]_vars

\* C1 witness: the sweep of the basic registry has expired a cart mandate.
C1_Witness ==
    \E i \in Ids :
        /\ impl = "basic"
        /\ mandates[i].status = EXPIRED
        /\ mandates[i].type = CART
        /\ mandates[i].data.total_amount = 75

\* C2: a mandate becomes Executed only from Approved and only at a time
\* now < expires_at.
C2_ExecutedOnlyBeforeExpiry ==
    [][\A i \in Ids :
          (mandates[i].status # EXECUTED /\ mandates'[i].status = EXECUTED)
          => (mandates[i].status = APPROVED /\ now < mandates[i].expires_at)]_vars

\* C3: while the payload of an Approved mandate does not match its integrity
\* tag, no step makes it Executed or sets executed_at (execute fails).
C3_TamperedExecuteFails ==
    [][\A i \in Ids :
          (mandates[i].status = APPROVED /\ ~Verifies(mandates[i]))
          => /\ mandates'[i].status # EXECUTED
             /\ mandates'[i].executed_at = None]_vars

\* C4: approve on a Pending mandate whose integrity tag does not verify
\* returns failure and changes nothing, and no step (approve,
\* process_auto_approvals or any other) moves such a mandate to Approved.
C4_UnverifiedNeverApproved ==
    /\ [](\A i \in Ids :
            (mandates[i].status = PENDING /\ ~Verifies(mandates[i]))
            => /\ ~ApproveCall(mandates[i]).ok
               /\ ApproveCall(mandates[i]).m = mandates[i])
    /\ [][\A i \in Ids :
            (mandates[i].status = PENDING /\ ~Verifies(mandates[i]))
            => mandates'[i].status # APPROVED]_vars

\* C4 witness: a Pending mandate whose payload no longer matches its tag.
C4_Witness ==
    \E i \in Ids : mandates[i].status = PENDING /\ ~Verifies(mandates[i])

\* C5: execute on an Approved mandate inside its validity window whose tag
\* verifies succeeds and stamps executed_at; the same call repeated at once
\* fails and changes nothing; and execute on an Executed mandate always
\* fails and leaves executed_at as it was.
C5_ExecuteSingleFire ==
    \A i \in Ids :
        LET m == mandates[i]
            first == ExecuteCall(m)
            second == ExecuteCall(first.m)
        IN  /\ (m.status = APPROVED /\ now < m.expires_at /\ Verifies(m))
               => /\ first.ok
                  /\ first.m.status = EXECUTED
                  /\ first.m.executed_at = now
                  /\ ~second.ok
                  /\ second.m = first.m
            /\ m.status = EXECUTED => (~first.ok /\ first.m = m)

\* C5 witness: an executed mandate, at a later time than its execution.
C5_Witness ==
    \E i \in Ids :
        /\ mandates[i].status = EXECUTED
        /\ mandates[i].executed_at # None
        /\ mandates[i].executed_at < now

\* C6: approve on a mandate that is not Pending, execute on one that is not
\* Approved and cancel on one that is not Pending return failure and leave
\* every field of the mandate as it was.
C6_IllegalRequestsChangeNothing ==
    \A i \in Ids :
        LET m == mandates[i]
        IN  /\ m.status # PENDING
               => (~ApproveCall(m).ok /\ ApproveCall(m).m = m)
            /\ m.status # APPROVED
               => (~ExecuteCall(m).ok /\ ExecuteCall(m).m = m)
            /\ (impl = "basic" /\ m.status # PENDING)
               => (~cancel(m).ok /\ cancel(m).m = m)

\* C6 witness: a cancelled mandate, on which all three requests are illegal.
C6_Witness ==
    \E i \in Ids : mandates[i].status = CANCELLED

\* C7: once a mandate is Executed, Cancelled or Expired, no step changes its
\* status.
C7_TerminalIsFinal ==
    [][\A i \in Ids :
          mandates[i].status \in Terminal
          => mandates'[i].status = mandates[i].status]_vars

\* C7 witness: an executed mandate whose expiry time has passed, so that the
\* sweep meets it.
C7_Witness ==
    \E i \in Ids :
        mandates[i].status = EXECUTED /\ now > mandates[i].expires_at

\* C8: executed_at is set if and only if the status is Executed.
C8_ExecutedAtIffExecuted ==
    \A i \in Ids :
        (mandates[i].executed_at # None) <=> (mandates[i].status = EXECUTED)

\* C8 witness: a mandate executed in the hour it was created.
C8_Witness ==
    \E i \in Ids :
        /\ mandates[i].status = EXECUTED
        /\ mandates[i].executed_at = mandates[i].created_at

C10_AutoApprovalGuarded ==
    [][/\ \A i \in Created :
            mandates'[i].status = APPROVED => AutoApprovalGuard(mandates'[i])
       /\ (process_auto_approvals \/ agent_process_auto_approvals)
          => \A i \in Ids :
               (mandates[i].status = PENDING /\ mandates'[i].status = APPROVED)
               => AutoApprovalGuard(mandates[i])]_vars

\* C11: a Payment mandate of amount 101 (one above the ceiling) is never
\* auto-approved, at creation or by a sweep, whatever its urgency; a Payment
\* mandate of amount 99 (one below) with urgency = emergency is Approved when
\* creation returns.
C11_CeilingNeighbours ==
    [][/\ \A i \in Created :
            (mandates'[i].type = PAYMENT
             /\ mandates'[i].data.amount = PaymentCeiling + 1)
            => mandates'[i].status # APPROVED
       /\ \A i \in Ids :
            (mandates[i].type = PAYMENT
             /\ mandates[i].data.amount = PaymentCeiling + 1
             /\ mandates[i].status = PENDING)
            => mandates'[i].status # APPROVED
       /\ \A i \in Created :
            (mandates'[i].type = PAYMENT
             /\ mandates'[i].data.amount = PaymentCeiling - 1
             /\ mandates'[i].data.urgency = "emergency")
            => mandates'[i].status = APPROVED]_vars

\* C12: an Intent mandate created with intent_type = "savings_goal" is
\* Approved when the creating request (the Flask route, the enhanced factory)
\* returns.
C12_SavingsGoalApproved ==
    [][(impl = "enhanced"
        \/ \E u \in Users, d \in IntentData : route_create_intent_mandate(u, d))
       => \A i \in Created :
            (mandates'[i].type = INTENT
             /\ mandates'[i].data.intent_type = "savings_goal")
            => mandates'[i].status = APPROVED]_vars

\* C13: a Payment mandate created with amount = 90 is Approved when the
\* creating request returns if its purpose is "emergency" and Pending if its
\* purpose is "shopping".
C13_PaymentNinety ==
    [][(impl = "enhanced"
        \/ \E u \in Users, d \in PaymentData : route_create_payment_mandate(u, d))
       => \A i \in Created :
            (mandates'[i].type = PAYMENT /\ mandates'[i].data.amount = 90)
            => /\ mandates'[i].data.purpose = "emergency"
                  => mandates'[i].status = APPROVED
               /\ mandates'[i].data.purpose = "shopping"
                  => mandates'[i].status = PENDING]_vars

\* C14: a Cart mandate created with total_amount = 75 is Pending when
\* creation returns.
C14_CartSeventyFivePending ==
    [][\A i \in Created :
          (mandates'[i].type = CART /\ mandates'[i].data.total_amount = 75)
          => mandates'[i].status = PENDING]_vars

\* C14 witness: a cart of 75 in the hour of its creation, Pending.
C14_Witness ==
    \E i \in Ids :
        /\ mandates[i].type = CART
        /\ mandates[i].data.total_amount = 75
        /\ mandates[i].created_at = now
        /\ mandates[i].status = PENDING

\* C15: in the registry cleanup_expired leaves behind at time now, no mandate
\* is Pending or Approved with expires_at earlier than now.
C15_SweepLeavesNoOverdue ==
    \A i \in Ids :
        LET swept == CleanupCall(mandates, now)[i]
        IN  ~(swept.status \in {PENDING, APPROVED} /\ swept.expires_at < now)

\* C16: a second cleanup_expired run directly after a first returns 0 and
\* changes no mandate.
C16_SweepTwice ==
    LET first == CleanupCall(mandates, now)
    IN  /\ CleanupCount(first, now) = 0
        /\ CleanupCall(first, now) = first

\* C17: cleanup_expired makes a mandate that is still Pending after its
\* expires_at has passed Expired; approve on an Expired mandate fails and
\* changes nothing; and no later step changes the status of an Expired
\* mandate.
C17_ExpiredStaysExpired ==
    /\ [](\A i \in Ids :
            /\ (mandates[i].status = PENDING /\ now > mandates[i].expires_at)
               => CleanupCall(mandates, now)[i].status = EXPIRED
            /\ mandates[i].status = EXPIRED
               => /\ ~ApproveCall(mandates[i]).ok
                  /\ ApproveCall(mandates[i]).m = mandates[i])
    /\ [][\A i \in Ids :
            mandates[i].status = EXPIRED => mandates'[i].status = EXPIRED]_vars

\* C17 witness: a mandate of the enhanced registry, whose sweep expires
\* Pending mandates only, is Expired after its expiry time.
C17_Witness ==
    \E i \in Ids :
        /\ impl = "enhanced"
        /\ mandates[i].status = EXPIRED
        /\ now > mandates[i].expires_at

\* C18: an approve, execute or cancel request on a mandate made by a caller
\* who is not its owner is answered 403 and leaves the mandate as it was.
C18_OnlyOwnerActs ==
    \A i \in Ids : \A caller \in Users :
        caller # mandates[i].user_id
        => /\ ApproveRequest(caller, mandates[i]).code = 403
           /\ ApproveRequest(caller, mandates[i]).m = mandates[i]
           /\ ExecuteRequest(caller, mandates[i]).code = 403
           /\ ExecuteRequest(caller, mandates[i]).m = mandates[i]
           /\ impl = "basic"
              => /\ route_cancel_response(caller, mandates[i]).code = 403
                 /\ route_cancel_response(caller, mandates[i]).m = mandates[i]

\* C19: of two execute requests that the owner made for the same mandate
\* while it was Approved and valid, and that have both run to their response
\* within the validity window, exactly one reports success (so executed_at
\* was written once).
C19_ConcurrentExecuteOnce ==
    \A t1 \in Threads : \A t2 \in Threads \ {t1} :
        (/\ requests[t1].pc = "done" /\ requests[t2].pc = "done"
         /\ requests[t1].mandate_id = requests[t2].mandate_id
         /\ requests[t1].approved /\ requests[t2].approved
         /\ now < mandates[requests[t1].mandate_id].expires_at)
        => (requests[t1].ok # requests[t2].ok)

\* C20: after a create, approve, execute or cancel request that succeeded,
\* ap2_transactions holds a document for each mandate the request created or
\* changed, with the status the mandate has in the registry.
C20_PersistedAfterRequest ==
    [][(/\ StateChangingRequest
        /\ mandates' # mandates
        /\ ~(impl = "basic" /\ ~db))
       => \A i \in 1..Len(mandates') :
            (i \in Created \/ mandates'[i] # mandates[i])
            => /\ i \in DOMAIN ap2_transactions'
               /\ ap2_transactions'[i].status = mandates'[i].status]_vars

\* C21: a creation whose document could not be written leaves the registry
\* as it was, and an approve or execute whose document update failed leaves
\* the mandate's status as it was.
C21_RollbackOnPersistFailure ==
    [][/\ (/\ ~db
           /\ \/ \E u \in Users, d \in IntentData :
                   route_create_intent_mandate(u, d)
              \/ \E u \in Users, d \in CartData :
                   route_create_cart_mandate(u, d)
              \/ \E u \in Users, d \in PaymentData :
                   route_create_payment_mandate(u, d))
          => mandates' = mandates
       /\ \A i \in Ids :
            (/\ db
             /\ i \notin DOMAIN ap2_transactions
             /\ agent_approve_mandate(i) \/ agent_execute_mandate(i))
            => mandates'[i].status = mandates[i].status]_vars

\* C22: a mandate verifies its integrity tag when creation returns, and a
\* mandate that verifies still verifies after any step that leaves its
\* signed fields as they were.
C22_TagKeepsVerifying ==
    [][/\ \A i \in Created : Verifies(mandates'[i])
       /\ \A i \in Ids :
            (/\ Verifies(mandates[i])
             /\ SignedFields(mandates'[i]) = SignedFields(mandates[i]))
            => Verifies(mandates'[i])]_vars

\* C22 witness: a mandate that has reached a terminal status after the hour
\* of its creation and verifies.
C22_Witness ==
    \E i \in Ids :
        /\ mandates[i].status \in Terminal
        /\ now > mandates[i].created_at
        /\ Verifies(mandates[i])

\* C23: a copy of a verifying mandate in which exactly one of id, owner,
\* payload, nonce or creation time has another value, the tag being the
\* stored one, does not verify.
C23_AlteredFieldFailsVerification ==
    \A i \in Ids :
        Verifies(mandates[i])
        => \A a \in AlteredCopies(mandates[i]) : ~Verifies(a)

\* C23 witness: an enhanced mandate verifies after a status change and a
\* copy of it with another nonce is among the altered copies.
C23_Witness ==
    /\ impl = "enhanced"
    /\ \E i \in Ids :
         /\ mandates[i].status = EXECUTED
         /\ Verifies(mandates[i])
         /\ \E a \in AlteredCopies(mandates[i]) :
              a.nonce # mandates[i].nonce /\ ~Verifies(a)

\* C24: the list of an owner, with or without a status filter, holds only
\* mandates of the registry with that owner (and that status), holds each of
\* them exactly once, and runs from the newest created_at to the oldest.
C24_ListIsExactAndNewestFirst ==
    \A user_id \in Users, status \in MandateStatus \cup {NoFilter} :
        LET listed == get_user_mandates(mandates, user_id, status)
            wanted == {i \in Ids :
                         /\ mandates[i].user_id = user_id
                         /\ status # NoFilter => mandates[i].status = status}
        IN  /\ \A k \in DOMAIN listed :
                 \E i \in wanted : listed[k] = mandates[i]
            /\ \A i \in wanted :
                 Cardinality({k \in DOMAIN listed : listed[k] = mandates[i]}) = 1
            /\ \A k \in DOMAIN listed : \A l \in DOMAIN listed :
                 k < l => listed[k].created_at >= listed[l].created_at

\* C24 witness: an owner holds mandates created at different instants, the
\* list names the later one first, and a status filter selects one of them.
C24_Witness ==
    \E user_id \in Users :
        LET listed == get_user_mandates(mandates, user_id, NoFilter)
        IN  /\ Len(listed) >= 2
            /\ listed[1].created_at > listed[Len(listed)].created_at
            /\ Len(get_user_mandates(mandates, user_id, APPROVED)) = 1
            /\ Len(mandates) > Len(listed)

\* C25: a creation request that lacks a required field of its kind (intent:
\* intent_type; cart: a non-empty item list; payment: amount and purpose)
\* leaves the registry and the store as they were.
C25_IncompleteRequestChangesNothing ==
    [][(\/ \E uid \in Users, body \in RouteIntentBodies :
             "intent_type" \notin DOMAIN body
             /\ post_ap2_mandates_intent(uid, body)
        \/ \E uid \in Users, body \in RouteCartBodies :
             get(body, "items", <<>>) = <<>>
             /\ post_ap2_mandates_cart(uid, body)
        \/ \E uid \in Users, body \in RoutePaymentBodies :
             ~({"amount", "purpose"} \subseteq DOMAIN body)
             /\ post_ap2_mandates_payment(uid, body)
        \/ \E request \in IntentMandateRequest :
             "intent_type" \notin DOMAIN request
             /\ post_mandates_intent(request)
        \/ \E request \in CartMandateRequest :
             get(request, "items", <<>>) = <<>>
             /\ post_mandates_cart(request)
        \/ \E request \in PaymentMandateRequest :
             ~({"amount", "purpose"} \subseteq DOMAIN request)
             /\ post_mandates_payment(request))
       => /\ mandates' = mandates
          /\ ap2_transactions' = ap2_transactions]_vars

C27_ApproveCancelExclusive ==
    /\ [](\A t1 \in Threads : \A t2 \in Threads \ {t1} :
            (/\ requests[t1].pc = "approve_done"
             /\ requests[t2].pc = "cancel_done"
             /\ requests[t1].mandate_id = requests[t2].mandate_id)
            => ~(requests[t1].ok /\ requests[t2].ok))
    /\ [][\A i \in Ids :
            mandates[i].status = CANCELLED
            => mandates'[i].status \notin {APPROVED, EXECUTED}]_vars

\* C28: no mandate is Expired with executed_at set, that is, the sweep never
\* overwrites the status of a mandate an execute request has executed.
C28_ExecutedNeverExpired ==
    \A i \in Ids :
        ~(mandates[i].status = EXPIRED /\ mandates[i].executed_at # None)

\* C29: the sweep of the running implementation, run at any moment, leaves
\* every mandate that expires in the future and every Executed or Cancelled
\* mandate exactly as it is.
C29_CleanupSparesUnexpiredAndFinished ==
    \A i \in Ids :
        (\/ mandates[i].expires_at > now
         \/ mandates[i].status \in {EXECUTED, CANCELLED})
        => CleanupCall(mandates, now)[i] = mandates[i]

\* C29 witness: a mandate that was executed or cancelled and whose expiry
\* has passed, which the sweep leaves as it is.
C29_Witness ==
    \E i \in Ids :
        /\ mandates[i].status \in {EXECUTED, CANCELLED}
        /\ now > mandates[i].expires_at
        /\ CleanupCall(mandates, now)[i] = mandates[i]

\* C30: process_auto_approvals, run on the registry or on a registry that
\* has just received a new mandate, changes exactly the mandates that are
\* Pending and auto-approvable, changes of them only the status, to
\* Approved, and returns the number of mandates it changed.
C30_AutoApprovalSweepExact ==
    impl = "enhanced"
    => \A ms \in {mandates} \cup JustRegistered :
          LET after == after_auto_approvals(ms)
              changed == {i \in DOMAIN ms : after[i] # ms[i]}
          IN  /\ DOMAIN after = DOMAIN ms
              /\ \A i \in DOMAIN ms :
                   i \in changed
                   <=> (ms[i].status = PENDING /\ can_auto_approve(ms[i]))
              /\ \A i \in changed :
                   after[i] = [ms[i] EXCEPT !.status = APPROVED]
              /\ auto_approval_count(ms) = Cardinality(changed)

\* C30 witness: a mandate just stored by a factory is approved by the
\* sweep, which then returns 1, and another one, not auto-approvable, is
\* left Pending by the sweep, which then returns 0.
C30_Witness ==
    /\ impl = "enhanced"
    /\ \E ms \in JustRegistered :
         /\ after_auto_approvals(ms)[Len(ms)].status = APPROVED
         /\ auto_approval_count(ms) = 1
    /\ \E ms \in JustRegistered :
         /\ after_auto_approvals(ms) = ms
         /\ ms[Len(ms)].status = PENDING
         /\ auto_approval_count(ms) = 0

\* C31: at every clock value, the instant now = expires_at included, a
\* Pending or Approved mandate is either inside its validity window
\* (now < expires_at) or marked Expired by the sweep run at that clock value.
C31_ValidOrSweptAtEveryInstant ==
    \A i \in Ids :
        mandates[i].status \in {PENDING, APPROVED}
        => \/ now < mandates[i].expires_at
           \/ CleanupCall(mandates, now)[i].status = EXPIRED

\* C32: no step takes a mandate from Pending to Approved at a clock value
\* now >= expires_at.
C32_NoApprovalAfterExpiry ==
    [][\A i \in Ids :
         (mandates[i].status = PENDING /\ mandates'[i].status = APPROVED)
         => now < mandates[i].expires_at]_vars

\* C33: with the clock advancing and the sweep being run again and again,
\* every registered mandate eventually has a terminal status (Executed,
\* Cancelled or Expired).
C33_EventuallyTerminal ==
    \A i \in 1..MaxMandates :
        (i \in Ids) ~> (i \in Ids /\ mandates[i].status \in Terminal)

\* C34: on an enhanced registry whose mandates all carry the signed fields
\* they were created with, process_auto_approvals returns 0 and leaves the
\* registry as it is.
C34_SweepFindsNothingToApprove ==
    (/\ impl = "enhanced"
     /\ \A i \in Ids : Verifies(mandates[i]))
    => /\ auto_approval_count(mandates) = 0
       /\ after_auto_approvals(mandates) = mandates

\* C34 witness: an enhanced registry holds an unmodified mandate that is
\* auto-approvable and was approved when it was created, and the sweep
\* returns 0.
C34_Witness ==
    /\ impl = "enhanced"
    /\ \E i \in Ids :
         /\ can_auto_approve(mandates[i])
         /\ mandates[i].status = APPROVED
    /\ auto_approval_count(mandates) = 0

\* C35: a mandate and a copy of it that differs only in expires_at, status
\* or executed_at give the same verification result, whether the mandate is
\* as it was signed or one of its signed fields has been altered.
C35_VerificationIgnoresUnsignedFields ==
    \A i \in Ids :
        \A m \in {mandates[i]} \cup AlteredCopies(mandates[i]) :
            LET verified == Verifies(m)
            IN  \A v \in UnsignedVariants(m) : Verifies(v) = verified

\* C35 witness: an approved mandate verifies and so does a copy of it with
\* another expires_at, and a copy of it that is executed and expired.
C35_Witness ==
    \E i \in Ids :
        /\ mandates[i].status = APPROVED
        /\ Verifies(mandates[i])
        /\ \E v \in UnsignedVariants(mandates[i]) :
              /\ v.expires_at # mandates[i].expires_at
              /\ v.status = mandates[i].status
              /\ v.executed_at = mandates[i].executed_at
              /\ Verifies(v)
        /\ \E v \in UnsignedVariants(mandates[i]) :
              /\ v.status = EXECUTED
              /\ v.executed_at = now
              /\ Verifies(v)

\* C36: a mandate created through a route of the Flask application has the
\* status (Approved or Pending) that the factory of the enhanced registry
\* gives a mandate of the same kind and payload.
C36_RouteAndTrustDecisionsAgree ==
    [][(\/ \E u \in Users, d \in IntentData : route_create_intent_mandate(u, d)
        \/ \E u \in Users, d \in CartData : route_create_cart_mandate(u, d)
        \/ \E u \in Users, d \in PaymentData : route_create_payment_mandate(u, d))
       => \A i \in Created :
            mandates'[i].status =
              auto_approved(EnhancedAP2Mandate(i, mandates'[i].type,
                                               mandates'[i].user_id,
                                               mandates'[i].data, now, i)).status]_vars


(***************************************************************************)
(* Requests that name a mandate by id, from the lookup on.  The handlers   *)
(* of both applications look the id up first and answer 404 when the       *)
(* registry has no such mandate; ms is the registry the request leaves.    *)
(***************************************************************************)
\* Ids a request can name that self.mandates.get(mandate_id) does not find
UnknownIds == {next_id, next_id + 1}

\* Mutant of route_not_found: the unknown id is answered as forbidden.
route_not_found_as_forbidden(ms) == [code |-> 403, ms |-> ms]

\* routes/ap2.py: if not mandate: return {"error": "Mandate not found"}, 404
route_not_found(ms) == [code |-> 404, ms |-> ms]

\* src/ap2_agent.py: if not mandate: raise HTTPException(status_code=404)
agent_not_found(ms) == [code |-> 404, ms |-> ms]

\* routes/ap2.py get_mandate
route_get_mandate_request(ms, uid, mandate_id) ==
    IF mandate_id \notin DOMAIN ms THEN route_not_found(ms)
    ELSE IF ms[mandate_id].user_id # uid THEN [code |-> 403, ms |-> ms]
    ELSE [code |-> 200, ms |-> ms]

\* routes/ap2.py approve_mandate, the whole handler
route_approve_mandate_request(ms, uid, mandate_id, t) ==
    IF mandate_id \notin DOMAIN ms THEN route_not_found(ms)
    ELSE LET response == route_approve_response(uid, ms[mandate_id], t)
         IN  [code |-> response.code,
              ms |-> [ms EXCEPT ![mandate_id] = response.m]]

\* routes/ap2.py execute_mandate, the whole handler
route_execute_mandate_request(ms, uid, mandate_id, t) ==
    IF mandate_id \notin DOMAIN ms THEN route_not_found(ms)
    ELSE LET response == route_execute_response(uid, ms[mandate_id], t)
         IN  [code |-> response.code,
              ms |-> [ms EXCEPT ![mandate_id] = response.m]]

\* routes/ap2.py cancel_mandate, the whole handler
route_cancel_mandate_request(ms, uid, mandate_id) ==
    IF mandate_id \notin DOMAIN ms THEN route_not_found(ms)
    ELSE LET response == route_cancel_response(uid, ms[mandate_id])
         IN  [code |-> response.code,
              ms |-> [ms EXCEPT ![mandate_id] = response.m]]

\* AP2Protocol.approve_mandate: mandate.approve() if mandate else False
approve_mandate(ms, mandate_id, t) ==
    IF mandate_id \notin DOMAIN ms THEN [ok |-> FALSE, ms |-> ms]
    ELSE [ok |-> approve(ms[mandate_id], t).ok,
          ms |-> [ms EXCEPT ![mandate_id] = approve(@, t).m]]

\* AP2Protocol.execute_mandate: the result dictionary's success and error
execute_mandate(ms, mandate_id, t) ==
    IF mandate_id \notin DOMAIN ms
    THEN [success |-> FALSE, error |-> "Mandate not found", ms |-> ms]
    ELSE IF ~execute(ms[mandate_id], t).ok
    THEN [success |-> FALSE, error |-> "Mandate execution failed",
          ms |-> [ms EXCEPT ![mandate_id] = execute(@, t).m]]
    ELSE [success |-> TRUE, error |-> "",
          ms |-> [ms EXCEPT ![mandate_id] = execute(@, t).m]]

\* src/ap2_agent.py get_mandate: no caller, no ownership test
agent_get_mandate_request(ms, mandate_id) ==
    IF mandate_id \notin DOMAIN ms THEN agent_not_found(ms)
    ELSE [code |-> 200, ms |-> ms]

\* src/ap2_agent.py approve_mandate, the whole handler
agent_approve_mandate_request(ms, mandate_id) ==
    IF mandate_id \notin DOMAIN ms THEN agent_not_found(ms)
    ELSE LET response == agent_approve_response(ms[mandate_id])
         IN  [code |-> response.code,
              ms |-> [ms EXCEPT ![mandate_id] = response.m]]

\* src/ap2_agent.py execute_mandate, the whole handler
agent_execute_mandate_request(ms, mandate_id, t) ==
    IF mandate_id \notin DOMAIN ms THEN agent_not_found(ms)
    ELSE LET response == agent_execute_response(ms[mandate_id], t)
         IN  [code |-> response.code,
              ms |-> [ms EXCEPT ![mandate_id] = response.m]]

\* The answers of the four id-naming routes of routes/ap2.py to one caller
RouteAnswers(uid, mandate_id) ==
    {route_get_mandate_request(mandates, uid, mandate_id),
     route_approve_mandate_request(mandates, uid, mandate_id, now),
     route_execute_mandate_request(mandates, uid, mandate_id, now),
     route_cancel_mandate_request(mandates, uid, mandate_id)}

\* The answers of the three id-naming endpoints of src/ap2_agent.py, which
\* has no cancel endpoint
AgentAnswers(mandate_id) ==
    {agent_get_mandate_request(mandates, mandate_id),
     agent_approve_mandate_request(mandates, mandate_id),
     agent_execute_mandate_request(mandates, mandate_id, now)}

\* C37: get, approve, execute and cancel on an id that is not in the
\* registry answer not-found (404) and leave every mandate as it was, and
\* that answer differs from the one given for a registered mandate: 403 to a
\* caller of routes/ap2.py who is not the owner, and never 404 in either
\* application.  The protocol's own approve_mandate and execute_mandate
\* refuse the unknown id and change nothing.
C37_UnknownIdIsNotFound ==
    /\ impl = "basic" =>
          /\ \A uid \in Users :
                /\ \A id \in UnknownIds : \A q \in RouteAnswers(uid, id) :
                       /\ q.code = 404
                       /\ q.ms = mandates
                /\ \A i \in Ids : \A r \in RouteAnswers(uid, i) :
                       /\ mandates[i].user_id # uid => r.code = 403
                       /\ r.code \notin
                              {q.code : q \in RouteAnswers(uid, next_id)}
          /\ \A id \in UnknownIds :
                /\ approve_mandate(mandates, id, now)
                       = [ok |-> FALSE, ms |-> mandates]
                /\ execute_mandate(mandates, id, now)
                       = [success |-> FALSE, error |-> "Mandate not found",
                          ms |-> mandates]
    /\ impl = "enhanced" =>
          /\ \A id \in UnknownIds : \A q \in AgentAnswers(id) :
                 /\ q.code = 404
                 /\ q.ms = mandates
          /\ \A i \in Ids : \A r \in AgentAnswers(i) :
                 r.code \notin {q.code : q \in AgentAnswers(next_id)}

\* C37 witness: a mandate of u1 has been approved; u2's execute request for
\* it is answered 403, u1's own 200, and u2's execute request for an id the
\* registry does not hold is answered 404 and leaves the registry as it was.
C37_Witness ==
    /\ impl = "basic"
    /\ \E i \in Ids :
          /\ mandates[i].user_id = "u1"
          /\ mandates[i].status = APPROVED
          /\ route_execute_mandate_request(mandates, "u2", i, now).code = 403
          /\ route_execute_mandate_request(mandates, "u1", i, now).code = 200
    /\ route_execute_mandate_request(mandates, "u2", next_id, now).code = 404
    /\ route_execute_mandate_request(mandates, "u2", next_id, now).ms
           = mandates

\* Amounts on both sides of the amounts at which the scorer starts to ask
\* for review (100 for a cart, 50 for a payment, 500/7 for an emergency
\* payment) and beyond the caps of the risk (1000 and 800).
TrustAmounts ==
    CartAmounts \cup PaymentAmounts
        \cup {0, 51, 71, 72, 100, 800, 1001}

\* The payload of m with its amount replaced by a; the urgency stays
with_amount(m, a) ==
    IF m.type = CART THEN [m.data EXCEPT !.total_amount = a]
    ELSE [m.data EXCEPT !.amount = a]

\* data.get("total_amount", 0) of a cart, data.get("amount", 0) of a payment
amount_of(m) ==
    IF m.type = CART THEN m.data.total_amount ELSE m.data.amount

\* C38: requires_manual_review is monotone in the amount.  For a registered
\* Cart or Payment mandate of the enhanced implementation that still carries
\* the payload it was scored with at its creation: if it requires manual
\* review, so does the same payload with any amount at least as large, and
\* if it does not, neither does the same payload with any amount at most as
\* large (urgency unchanged).
C38_ReviewMonotoneInAmount ==
    impl = "enhanced" =>
        \A i \in Ids :
          (mandates[i].type \in {CART, PAYMENT} /\ Verifies(mandates[i])) =>
            \A a \in TrustAmounts :
                LET mine == mandates[i].trust_metrics.requires_manual_review
                    other == calculate_trust_metrics(
                                 mandates[i].type,
                                 with_amount(mandates[i], a)
                             ).requires_manual_review
                IN  /\ (a >= amount_of(mandates[i]) /\ mine) => other
                    /\ (a <= amount_of(mandates[i]) /\ ~mine) => ~other

\* C38 witness: a registered emergency payment of 90 requires manual review,
\* the same payment with amount 101 requires it too, and with amount 71 it
\* does not, so the answer does change along the amounts.
C38_Witness ==
    /\ impl = "enhanced"
    /\ \E i \in Ids :
          /\ mandates[i].type = PAYMENT
          /\ Verifies(mandates[i])
          /\ mandates[i].data.urgency = "emergency"
          /\ mandates[i].data.amount = 90
          /\ mandates[i].trust_metrics.requires_manual_review
          /\ calculate_trust_metrics(
                 PAYMENT, with_amount(mandates[i], 101)
             ).requires_manual_review
          /\ ~calculate_trust_metrics(
                 PAYMENT, with_amount(mandates[i], 71)
             ).requires_manual_review


============================================================================
